---- MODULE Spec2Model ----
(***************************************************************************)
(* Model of win-events: the subscription Reader of src/src/reader.rs       *)
(* (init, next, get_bookmark, Drop) over the native event-log service.     *)
(*                                                                         *)
(* Native handles are indices into the handle table `handles`; 0 is the    *)
(* null handle.  An Option<T> is a sequence of length at most one.  The    *)
(* outcome of every native call is an input of the action that makes it.   *)
(***************************************************************************)
EXTENDS Integers, Sequences, FiniteSets, TLC

\* ---- bounds ----
MaxEvents == 2      \* records the log service may hold
MaxCalls  == 6      \* calls of the Reader's interface in one behaviour
MaxSelLen  == 4     \* characters of an enumerated event-id selector
MaxLevels  == 2     \* entries of an enumerated level list
MaxFilters == 2     \* filter specs in an enumerated list

\* ---- program constants ----
EVT_SUBSCRIBE_TO_FUTURE_EVENTS       == 1
EVT_SUBSCRIBE_START_AT_OLDEST_RECORD == 2
EVT_SUBSCRIBE_START_AFTER_BOOKMARK   == 3
ERROR_TIMEOUT             == 1460
ERROR_NO_MORE_ITEMS       == 259
ERROR_INVALID_OPERATION   == 4317
ERROR_INSUFFICIENT_BUFFER == 122

VARIABLES
    log,        \* number of records in the event log; record ids are 1..log
    handles,    \* native handle table: handles[h] = [kind, closes]
    reader,     \* the Reader struct (fields as last written)
    phase,      \* "absent" | "live" | "dropped"
    subCursor,  \* record id last handed out by the Reader's subscription
    bmPos,      \* record id stored in the Reader's bookmark handle (0: empty)
    ncalls,     \* number of calls of the Reader's interface made
    ret,        \* result of the last call
    calls,      \* native calls made by the last call, in order
    returned,   \* record ids the live Reader returned as Ok, in order
    retrieved,  \* number of polls of the live Reader that yielded an event
    updates,    \* number of successful bookmark updates of the live Reader
    exported,   \* Option<String>: the bookmark text last exported
    exportedAfter, \* record id of the last event returned before that export
    resumed,    \* Option<Nat>: exportedAfter of the text this Reader was
                \* initialised with, when it was given the exported text
    filters,    \* the Vec<filter::Config> handed to build_query
    overflow_checks, \* whether the build traps integer overflow (debug profile)
    query,      \* Option: the outcome of build_query(filters)
    query_again \* Option: the outcome of a second build_query(filters)

readerVars == <<log, handles, reader, phase, subCursor, bmPos, ncalls, ret, calls,
                returned, retrieved, updates, exported, exportedAfter, resumed>>
filterVars == <<filters, overflow_checks, query, query_again>>
vars == <<readerVars, filterVars>>

None == <<>>
Some(x) == <<x>>

Output == {"Xml", "Raw", "Parsed", "Json"}

\* a native call: function name, handle argument, result
Call(fn, arg, res) == [fn |-> fn, arg |-> arg, res |-> res]

\* ---- the native handle table ----
Alloc(hs, kind) == Append(hs, [kind |-> kind, closes |-> 0])
NewHandle(hs) == Len(hs) + 1
CloseIn(hs, h) == IF h \in 1..Len(hs) THEN [hs EXCEPT ![h].closes = @ + 1] ELSE hs
IsOpen(h) == h \in 1..Len(handles) /\ handles[h].closes = 0
OpenOfKind(kind) == {h \in 1..Len(handles) : handles[h].kind = kind /\ handles[h].closes = 0}

RECURSIVE CloseAll(_, _)
CloseAll(hs, cs) ==
    IF cs = <<>> THEN hs
    ELSE CloseAll(IF cs[1].fn \in {"CloseHandle", "EvtClose"} THEN CloseIn(hs, cs[1].arg) ELSE hs,
                  Tail(cs))

\* HANDLE::is_null / HANDLE::is_invalid
is_null(h) == h = 0
is_invalid(h) == h = -1

\* ---- bookmark text ----
\* EvtRender(bookmark_handle, EVT_RENDER_FLAG_BOOKMARK) writes the position
\* held by the handle as a BookmarkList document; EvtCreateBookmark reads it
\* back.  A document is modelled by its tag and RecordId.
BookmarkXml(pos) == <<"BookmarkList", pos>>
GarbageXml == <<"garbage">>
IsBookmarkXml(s) == Len(s) = 2 /\ s[1] = "BookmarkList"
RecordIdOf(s) == s[2]

NoRet == [op |-> "none", kind |-> "none", event |-> 0, code |-> None,
          flag |-> 0, read_oldest |-> FALSE, bookmark |-> None, bmh |-> 0]
NoReader == [subscription_handle |-> 0, bookmark_handle |-> 0,
             signal |-> None, output |-> "Parsed"]

Init ==
    /\ log = 0
    /\ handles = <<>>
    /\ reader = NoReader
    /\ phase = "absent"
    /\ subCursor = 0
    /\ bmPos = 0
    /\ ncalls = 0
    /\ ret = NoRet
    /\ calls = <<>>
    /\ returned = <<>>
    /\ retrieved = 0
    /\ updates = 0
    /\ exported = None
    /\ exportedAfter = 0
    /\ resumed = None
    /\ filters = <<>>
    /\ overflow_checks = FALSE
    /\ query = None /\ query_again = None

\* The log service records a new event (environment step).
Emit ==
    /\ log < MaxEvents
    /\ log' = log + 1
    /\ UNCHANGED <<handles, reader, phase, subCursor, bmPos, ncalls, ret, calls,
                   returned, retrieved, updates, exported, exportedAfter, resumed>>
    /\ UNCHANGED filterVars

\* ---- Reader::init ----
\* init_flag that never selects start-at-oldest
init_flag_without_read_oldest(read_oldest, bookmark_handle) ==
    IF bookmark_handle # 0 THEN EVT_SUBSCRIBE_START_AFTER_BOOKMARK
    ELSE EVT_SUBSCRIBE_TO_FUTURE_EVENTS

\* the start flag handed to EvtSubscribe
init_flag(read_oldest, bookmark_handle) ==
    IF bookmark_handle # 0 THEN EVT_SUBSCRIBE_START_AFTER_BOOKMARK
    ELSE IF read_oldest THEN EVT_SUBSCRIBE_START_AT_OLDEST_RECORD
    ELSE EVT_SUBSCRIBE_TO_FUTURE_EVENTS

\* where a subscription opened with `flag` starts reading
EvtSubscribeStart(flag, lg, pos) ==
    IF flag = EVT_SUBSCRIBE_START_AFTER_BOOKMARK THEN pos
    ELSE IF flag = EVT_SUBSCRIBE_START_AT_OLDEST_RECORD THEN 0
    ELSE lg

\* init that returns the Reader without testing the default bookmark handle
init_unchecked_default_bookmark(hs, lg, config, o) ==
    LET given  == config.bookmark # None
        bmOk   == given /\ o.bm /\ IsBookmarkXml(config.bookmark[1])
        hs1    == IF bmOk THEN Alloc(hs, "bookmark") ELSE hs
        bmh1   == IF bmOk THEN NewHandle(hs) ELSE 0
        pos1   == IF bmOk THEN RecordIdOf(config.bookmark[1]) ELSE 0
        c1     == IF given THEN <<Call("EvtCreateBookmark", 0, bmh1)>> ELSE <<>>
        flag   == init_flag(config.read_oldest, bmh1)
        hs2    == IF o.sig THEN Alloc(hs1, "signal") ELSE hs1
        signal == IF o.sig THEN NewHandle(hs1) ELSE 0
        c2     == c1 \o <<Call("CreateEventW", 0, signal)>>
        hs3    == IF o.sub THEN Alloc(hs2, "subscription") ELSE hs2
        subh   == IF o.sub THEN NewHandle(hs2) ELSE 0
        c3     == c2 \o <<Call("EvtSubscribe", bmh1, subh)>>
        hs4    == IF bmh1 = 0 /\ o.def THEN Alloc(hs3, "bookmark") ELSE hs3
        bmh2   == IF bmh1 # 0 THEN bmh1 ELSE IF o.def THEN NewHandle(hs3) ELSE 0
        c4     == IF bmh1 = 0 THEN c3 \o <<Call("EvtCreateBookmark", 0, bmh2)>> ELSE c3
        Err(h, c) == [kind |-> "Subscription", hs |-> h, calls |-> c, reader |-> NoReader,
                      flag |-> IF Len(c) >= Len(c3) THEN flag ELSE 0, bmh |-> bmh1,
                      cursor |-> 0, pos |-> 0]
    IN  IF is_null(signal) \/ is_invalid(signal) THEN Err(hs2, c2)
        ELSE IF subh = 0 THEN Err(hs3, c3)
        ELSE [kind |-> "Ok", hs |-> hs4, calls |-> c4,
              reader |-> [subscription_handle |-> subh, bookmark_handle |-> bmh2,
                          signal |-> Some(signal), output |-> config.output],
              flag |-> flag, bmh |-> bmh1,
              cursor |-> EvtSubscribeStart(flag, lg, pos1), pos |-> pos1]

\* config = [read_oldest, bookmark, output]; o = outcome of each native call:
\* o.bm EvtCreateBookmark(xml), o.sig CreateEventW, o.sub EvtSubscribe,
\* o.def EvtCreateBookmark(default)
init(hs, lg, config, o) ==
    LET given  == config.bookmark # None
        bmOk   == given /\ o.bm /\ IsBookmarkXml(config.bookmark[1])
        hs1    == IF bmOk THEN Alloc(hs, "bookmark") ELSE hs
        bmh1   == IF bmOk THEN NewHandle(hs) ELSE 0
        pos1   == IF bmOk THEN RecordIdOf(config.bookmark[1]) ELSE 0
        c1     == IF given THEN <<Call("EvtCreateBookmark", 0, bmh1)>> ELSE <<>>
        flag   == init_flag(config.read_oldest, bmh1)
        hs2    == IF o.sig THEN Alloc(hs1, "signal") ELSE hs1
        signal == IF o.sig THEN NewHandle(hs1) ELSE 0
        c2     == c1 \o <<Call("CreateEventW", 0, signal)>>
        hs3    == IF o.sub THEN Alloc(hs2, "subscription") ELSE hs2
        subh   == IF o.sub THEN NewHandle(hs2) ELSE 0
        c3     == c2 \o <<Call("EvtSubscribe", bmh1, subh)>>
        hs4    == IF bmh1 = 0 /\ o.def THEN Alloc(hs3, "bookmark") ELSE hs3
        bmh2   == IF bmh1 # 0 THEN bmh1 ELSE IF o.def THEN NewHandle(hs3) ELSE 0
        c4     == IF bmh1 = 0 THEN c3 \o <<Call("EvtCreateBookmark", 0, bmh2)>> ELSE c3
        Err(h, c) == [kind |-> "Subscription", hs |-> h, calls |-> c, reader |-> NoReader,
                      flag |-> IF Len(c) >= Len(c3) THEN flag ELSE 0, bmh |-> bmh1,
                      cursor |-> 0, pos |-> 0]
    IN  IF is_null(signal) \/ is_invalid(signal) THEN Err(hs2, c2)
        ELSE IF subh = 0 THEN Err(hs3, c3)
        ELSE IF bmh2 = 0 THEN Err(hs4, c4)
        ELSE [kind |-> "Ok", hs |-> hs4, calls |-> c4,
              reader |-> [subscription_handle |-> subh, bookmark_handle |-> bmh2,
                          signal |-> Some(signal), output |-> config.output],
              flag |-> flag, bmh |-> bmh1,
              cursor |-> EvtSubscribeStart(flag, lg, pos1), pos |-> pos1]

\* the bookmark texts a caller can hand to init
BookmarkInputs == {None, Some(GarbageXml)} \cup (IF exported = None THEN {} ELSE {exported})

\* outcomes of the native calls of one init(), one representative per path
InitOutcomes(bookmark) ==
    LET All == [bm : BOOLEAN, sig : BOOLEAN, sub : BOOLEAN, def : BOOLEAN]
    IN  {o \in All : /\ o.bm => bookmark # None /\ IsBookmarkXml(bookmark[1])
                     /\ o.sub => o.sig
                     /\ o.def => o.sub /\ ~o.bm}

ReaderInit ==
    /\ phase \in {"absent", "dropped"}
    /\ ncalls < MaxCalls
    /\ \E read_oldest \in BOOLEAN, bookmark \in BookmarkInputs, output \in Output :
         \E o \in InitOutcomes(bookmark) :
         \E r \in {init(handles, log, [read_oldest |-> read_oldest, bookmark |-> bookmark,
                                       output |-> output], o)} :
             /\ handles' = r.hs
             /\ calls' = r.calls
             /\ ret' = [NoRet EXCEPT !.op = "init", !.kind = r.kind, !.flag = r.flag,
                                     !.read_oldest = read_oldest, !.bookmark = bookmark,
                                     !.bmh = r.bmh]
             /\ reader' = r.reader
             /\ phase' = IF r.kind = "Ok" THEN "live" ELSE "absent"
             /\ subCursor' = r.cursor
             /\ bmPos' = r.pos
             /\ resumed' = IF r.kind = "Ok" /\ bookmark # None /\ bookmark = exported
                           THEN Some(exportedAfter) ELSE None
    /\ ncalls' = ncalls + 1
    /\ returned' = <<>>
    /\ retrieved' = 0
    /\ updates' = 0
    /\ UNCHANGED <<log, exported, exportedAfter>>
    /\ UNCHANGED filterVars

\* ---- Reader::next ----
BenignCodes == {ERROR_TIMEOUT, ERROR_NO_MORE_ITEMS, ERROR_INVALID_OPERATION}

\* next_event with ERROR_INVALID_OPERATION left out of the benign arm
next_event_invalid_operation_fatal(poll) ==
    IF poll.ok THEN "Some"
    ELSE IF poll.code = None \/ poll.code[1] \in {ERROR_TIMEOUT, ERROR_NO_MORE_ITEMS} THEN "None"
    ELSE "Err"

\* poll = [ok, code]: EvtNext's BOOL and IoError::last_os_error().raw_os_error()
next_event(poll) ==
    IF poll.ok THEN "Some"
    ELSE IF poll.code = None \/ poll.code[1] \in BenignCodes THEN "None"
    ELSE "Err"

\* probe: raw_os_error() after the zero-size call; fill: BOOL of the second call
ProbeFails(probe) == probe # None /\ probe[1] # ERROR_INSUFFICIENT_BUFFER

\* the size the service reports in buffer_used for the object behind handle h
buffer_used(h) == h + 1

\* a native call that takes a buffer: the buffer size passed in, the code
\* last_os_error() reports after it, and the size left in buffer_used
BufferCall(fn, arg, size, res, err) ==
    [fn |-> fn, arg |-> arg, res |-> res, size |-> size, err |-> err,
     used |-> buffer_used(arg)]

\* render_event that goes on to the second call whatever the probe reported
render_event_ignoring_probe_error(h, probe, fill) ==
    LET first  == <<BufferCall("EvtRender", h, 0, 0, probe)>>
        second == <<BufferCall("EvtRender", h, buffer_used(h), IF fill THEN 1 ELSE 0, None)>>
    IN  [ok |-> fill, calls |-> first \o second]

render_event(h, probe, fill) ==
    LET first  == <<BufferCall("EvtRender", h, 0, 0, probe)>>
        second == <<BufferCall("EvtRender", h, buffer_used(h), IF fill THEN 1 ELSE 0, None)>>
    IN  IF ProbeFails(probe) THEN [ok |-> FALSE, calls |-> first]
        ELSE [ok |-> fill, calls |-> first \o second]

\* publisher: Option (TRUE when a provider name was found); md: outcome of
\* EvtOpenPublisherMetadata
format_message(hs, event, publisher, md, probe, fill) ==
    LET opens  == publisher # None
        hs1    == IF opens /\ md THEN Alloc(hs, "metadata") ELSE hs
        mdh    == IF opens /\ md THEN NewHandle(hs) ELSE 0
        c0     == IF opens THEN <<Call("EvtOpenPublisherMetadata", 0, mdh)>> ELSE <<>>
        first  == <<BufferCall("EvtFormatMessage", event, 0, 0, probe)>>
        second == <<BufferCall("EvtFormatMessage", event, buffer_used(event),
                               IF fill THEN 1 ELSE 0, None)>>
    IN  IF ProbeFails(probe) THEN [ok |-> FALSE, hs |-> hs1, calls |-> c0 \o first]
        ELSE [ok |-> fill, hs |-> hs1, calls |-> c0 \o first \o second]

\* process_event that updates the bookmark a second time after formatting
process_event_update_twice(hs, event, bookmark_handle, i) ==
    LET upd == <<Call("EvtUpdateBookmark", bookmark_handle, IF i.upd THEN 1 ELSE 0)>>
        r   == render_event(event, i.r.probe, i.r.fill)
        provider == IF r.ok /\ i.name THEN Some(TRUE) ELSE None
        f   == format_message(hs, event, provider, i.md, i.f.probe, i.f.fill)
    IN  IF ~i.upd THEN [ok |-> FALSE, updated |-> FALSE, hs |-> hs, calls |-> upd]
        ELSE [ok |-> f.ok, updated |-> TRUE, hs |-> f.hs,
              calls |-> upd \o r.calls \o f.calls \o upd]

\* process_event that renders and formats first and updates the bookmark last
process_event_render_first(hs, event, bookmark_handle, i) ==
    LET upd == <<Call("EvtUpdateBookmark", bookmark_handle, IF i.upd THEN 1 ELSE 0)>>
        r   == render_event(event, i.r.probe, i.r.fill)
        provider == IF r.ok /\ i.name THEN Some(TRUE) ELSE None
        f   == format_message(hs, event, provider, i.md, i.f.probe, i.f.fill)
    IN  IF ~f.ok THEN [ok |-> FALSE, updated |-> FALSE, hs |-> f.hs, calls |-> r.calls \o f.calls]
        ELSE [ok |-> i.upd, updated |-> i.upd, hs |-> f.hs,
              calls |-> r.calls \o f.calls \o upd]

\* process_event that propagates a failure of the first render with `?`
process_event_render_fatal(hs, event, bookmark_handle, i) ==
    LET upd == <<Call("EvtUpdateBookmark", bookmark_handle, IF i.upd THEN 1 ELSE 0)>>
        r   == render_event(event, i.r.probe, i.r.fill)
        provider == IF r.ok /\ i.name THEN Some(TRUE) ELSE None
        f   == format_message(hs, event, provider, i.md, i.f.probe, i.f.fill)
    IN  IF ~i.upd THEN [ok |-> FALSE, updated |-> FALSE, hs |-> hs, calls |-> upd]
        ELSE IF ~r.ok THEN [ok |-> FALSE, updated |-> TRUE, hs |-> hs, calls |-> upd \o r.calls]
        ELSE [ok |-> f.ok, updated |-> TRUE, hs |-> f.hs, calls |-> upd \o r.calls \o f.calls]

\* i.upd EvtUpdateBookmark; i.r render_event's calls; i.name whether
\* parse_provider_name finds a name; i.md, i.f format_message's calls
process_event(hs, event, bookmark_handle, i) ==
    LET upd == <<Call("EvtUpdateBookmark", bookmark_handle, IF i.upd THEN 1 ELSE 0)>>
        r   == render_event(event, i.r.probe, i.r.fill)
        provider == IF r.ok /\ i.name THEN Some(TRUE) ELSE None
        f   == format_message(hs, event, provider, i.md, i.f.probe, i.f.fill)
    IN  IF ~i.upd THEN [ok |-> FALSE, updated |-> FALSE, hs |-> hs, calls |-> upd]
        ELSE [ok |-> f.ok, updated |-> TRUE, hs |-> f.hs, calls |-> upd \o r.calls \o f.calls]

\* TryInto<RawEvent> (i.parse) and serde_json::to_string (i.json)
convert(output, i) ==
    CASE output = "Xml"    -> TRUE
      [] output = "Raw"    -> i.parse
      [] output = "Parsed" -> i.parse
      [] output = "Json"   -> i.parse /\ i.json

next(hs, r, i) ==
    LET poll  == <<Call("EvtNext", r.subscription_handle, IF i.poll.ok THEN 1 ELSE 0)>>
        got   == next_event(i.poll)
        hs1   == Alloc(hs, "event")
        event == NewHandle(hs)
        p     == process_event(hs1, event, r.bookmark_handle, i)
        close == <<Call("EvtClose", event, 1)>>
    IN  IF got = "Err"
        THEN [kind |-> "Subscription", got |-> FALSE, updated |-> FALSE, hs |-> hs, calls |-> poll]
        ELSE IF got = "None"
        THEN [kind |-> "NoMoreLogs", got |-> FALSE, updated |-> FALSE, hs |-> hs, calls |-> poll]
        ELSE IF ~p.ok
        THEN [kind |-> "Event", got |-> TRUE, updated |-> p.updated, hs |-> p.hs,
              calls |-> poll \o p.calls]
        ELSE [kind |-> IF convert(r.output, i) THEN "Ok" ELSE "Event",
              got |-> TRUE, updated |-> TRUE, hs |-> CloseIn(p.hs, event),
              calls |-> poll \o p.calls \o close]

\* outcomes of the native calls of one next(), one representative per path
\* codes with no arm of their own: ERROR_SUCCESS and ERROR_ACCESS_DENIED
OtherCodes == {0, 5}
PollCodes == {None, Some(ERROR_TIMEOUT), Some(ERROR_NO_MORE_ITEMS),
              Some(ERROR_INVALID_OPERATION)} \cup {Some(c) : c \in OtherCodes}
ProbeCodes == {None, Some(ERROR_INSUFFICIENT_BUFFER), Some(5)}
BufferCalls == {c \in [probe : ProbeCodes, fill : BOOLEAN] : ProbeFails(c.probe) => ~c.fill}
NoCall == [probe |-> None, fill |-> FALSE]
NoInput == [poll |-> [ok |-> FALSE, code |-> None], upd |-> FALSE, r |-> NoCall,
            name |-> FALSE, md |-> FALSE, f |-> NoCall, parse |-> FALSE, json |-> FALSE]
Polled == [NoInput EXCEPT !.poll.ok = TRUE]
ProviderInputs ==
    {[Polled EXCEPT !.upd = TRUE, !.r = c] : c \in BufferCalls}
    \cup {[Polled EXCEPT !.upd = TRUE, !.r = [probe |-> Some(ERROR_INSUFFICIENT_BUFFER), fill |-> TRUE],
                         !.name = TRUE, !.md = m] : m \in BOOLEAN}
FormatInputs ==
    {[i EXCEPT !.f = c] : i \in ProviderInputs, c \in BufferCalls}
ConvertInputs ==
    {[i EXCEPT !.parse = TRUE, !.json = j] :
        i \in {x \in FormatInputs : x.f.fill}, j \in BOOLEAN}
NextInputs ==
    {[NoInput EXCEPT !.poll.code = c] : c \in PollCodes}
    \cup {Polled} \cup FormatInputs \cup ConvertInputs

ReaderNext ==
    /\ phase = "live"
    /\ ncalls < MaxCalls
    /\ ncalls' = ncalls + 1
    /\ \E i \in NextInputs :
         /\ i.poll.ok => subCursor < log
         /\ \E r \in {next(handles, reader, i)} :
            LET e == IF r.got THEN subCursor + 1 ELSE 0
            IN  /\ handles' = r.hs
                /\ calls' = r.calls
                /\ ret' = [NoRet EXCEPT !.op = "next", !.kind = r.kind, !.event = e,
                                        !.code = i.poll.code]
                /\ subCursor' = IF r.got THEN e ELSE subCursor
                /\ bmPos' = IF r.updated THEN e ELSE bmPos
                /\ returned' = IF r.kind = "Ok" THEN Append(returned, e) ELSE returned
                /\ retrieved' = IF r.got THEN retrieved + 1 ELSE retrieved
                /\ updates' = IF r.updated THEN updates + 1 ELSE updates
    /\ UNCHANGED <<log, reader, phase, exported, exportedAfter, resumed>>
    /\ UNCHANGED filterVars

\* ---- Reader::get_bookmark ----
get_bookmark(r, pos, probe, fill) ==
    LET x == render_event(r.bookmark_handle, probe, fill)
    IN  [ok |-> x.ok, calls |-> x.calls, xml |-> IF x.ok THEN Some(BookmarkXml(pos)) ELSE None]

ReaderGetBookmark ==
    /\ phase = "live"
    /\ ncalls < MaxCalls
    /\ ncalls' = ncalls + 1
    /\ \E c \in BufferCalls :
         LET r == get_bookmark(reader, bmPos, c.probe, c.fill)
         IN  /\ calls' = r.calls
             /\ ret' = [NoRet EXCEPT !.op = "get_bookmark", !.kind = IF r.ok THEN "Ok" ELSE "Event",
                                     !.bookmark = r.xml]
             /\ exported' = IF r.ok THEN r.xml ELSE exported
             /\ exportedAfter' = IF r.ok
                                 THEN (IF returned = <<>> THEN 0 ELSE returned[Len(returned)])
                                 ELSE exportedAfter
    /\ UNCHANGED <<log, handles, reader, phase, subCursor, bmPos, returned,
                   retrieved, updates, resumed>>
    /\ UNCHANGED filterVars

\* ---- Drop for Reader ----
\* drop with the subscription handle closed before the signal
drop_subscription_first(r) ==
    (IF r.subscription_handle # 0
     THEN <<Call("EvtClose", r.subscription_handle, 1)>> ELSE <<>>)
    \o (IF r.signal # None /\ ~is_null(r.signal[1]) /\ ~is_invalid(r.signal[1])
        THEN <<Call("CloseHandle", r.signal[1], 1)>> ELSE <<>>)
    \o (IF r.bookmark_handle # 0
        THEN <<Call("EvtClose", r.bookmark_handle, 1)>> ELSE <<>>)

\* the close calls Drop makes for Reader r, in order
drop(r) ==
    (IF r.signal # None /\ ~is_null(r.signal[1]) /\ ~is_invalid(r.signal[1])
     THEN <<Call("CloseHandle", r.signal[1], 1)>> ELSE <<>>)
    \o (IF r.subscription_handle # 0
        THEN <<Call("EvtClose", r.subscription_handle, 1)>> ELSE <<>>)
    \o (IF r.bookmark_handle # 0
        THEN <<Call("EvtClose", r.bookmark_handle, 1)>> ELSE <<>>)

ReaderDrop ==
    /\ phase = "live"
    /\ ncalls < MaxCalls
    /\ ncalls' = ncalls + 1
    /\ calls' = drop(reader)
    /\ handles' = CloseAll(handles, drop(reader))
    /\ phase' = "dropped"
    /\ ret' = [NoRet EXCEPT !.op = "drop", !.kind = "Ok"]
    /\ UNCHANGED <<log, reader, subCursor, bmPos, returned, retrieved, updates,
                   exported, exportedAfter, resumed>>
    /\ UNCHANGED filterVars

Next == Emit \/ ReaderInit \/ ReaderNext \/ ReaderGetBookmark \/ ReaderDrop

Spec == Init /\ [][Next]_vars

\* ======================= filter.rs: build_query =======================
\* A String is the sequence of its characters.  A u32 or u64 value is the
\* sequence of its decimal digits without leading zeros, which is also what
\* format!("{}") prints.
DigitChars == <<"0", "1", "2", "3", "4", "5", "6", "7", "8", "9">>
IsDigit(c) == \E n \in 1..10 : DigitChars[n] = c
DigitOf(c) == (CHOOSE n \in 1..10 : DigitChars[n] = c) - 1

RECURSIVE Canon(_)
Canon(d) == IF Len(d) > 1 /\ d[1] = 0 THEN Canon(Tail(d)) ELSE d

\* a < b for canonical digit sequences
RECURSIVE LexLess(_, _)
LexLess(a, b) ==
    IF a = <<>> THEN FALSE
    ELSE IF a[1] # b[1] THEN a[1] < b[1]
    ELSE LexLess(Tail(a), Tail(b))
Less(a, b) == Len(a) < Len(b) \/ (Len(a) = Len(b) /\ LexLess(a, b))

U32Max == <<4, 2, 9, 4, 9, 6, 7, 2, 9, 5>>
U64Max == <<1, 8, 4, 4, 6, 7, 4, 4, 0, 7, 3, 7, 0, 9, 5, 5, 1, 6, 1, 5>>
TwoTo64 == <<1, 8, 4, 4, 6, 7, 4, 4, 0, 7, 3, 7, 0, 9, 5, 5, 1, 6, 1, 6>>

Reverse(d) == [k \in 1..Len(d) |-> d[Len(d) + 1 - k]]
\* a - b on reversed digit sequences, a >= b
RECURSIVE SubRev(_, _, _)
SubRev(a, b, borrow) ==
    IF a = <<>> THEN <<>>
    ELSE LET x == a[1] - (IF b = <<>> THEN 0 ELSE b[1]) - borrow
         IN  <<(x + 10) % 10>>
             \o SubRev(Tail(a), IF b = <<>> THEN <<>> ELSE Tail(b), IF x < 0 THEN 1 ELSE 0)
Sub(a, b) == Canon(Reverse(SubRev(Reverse(a), Reverse(b), 0)))
Zeros(k) == [j \in 1..k |-> 0]
\* p mod m by long division, for p < m * 10^(k+1)
RECURSIVE ModFrom(_, _, _)
ModFrom(p, m, k) ==
    IF k < 0 THEN p
    ELSE IF Less(p, m \o Zeros(k)) THEN ModFrom(p, m, k - 1)
    ELSE ModFrom(Sub(p, m \o Zeros(k)), m, k)

\* u64 `sec * 1000`: the product, whether it overflows, and its wrapped value
Times1000(sec) == IF sec = <<0>> THEN <<0>> ELSE sec \o <<0, 0, 0>>
Overflows64(p) == Less(U64Max, p)
WrappingMul1000(sec) == ModFrom(Times1000(sec), TwoTo64, 3)

\* str::parse::<u32>: an optional '+', then one or more digits, at most u32::MAX
parse_u32(str) ==
    LET t == IF str # <<>> /\ str[1] = "+" THEN Tail(str) ELSE str
        n == Canon([k \in 1..Len(t) |-> DigitOf(t[k])])
    IN  IF t = <<>> \/ \E k \in 1..Len(t) : ~IsDigit(t[k]) THEN None
        ELSE IF Less(U32Max, n) THEN None
        ELSE Some(n)

\* str::split(sep): always at least one piece
RECURSIVE split(_, _)
split(str, sep) ==
    IF \A k \in 1..Len(str) : str[k] # sep THEN <<str>>
    ELSE LET k == CHOOSE j \in 1..Len(str) : str[j] = sep /\ \A h \in 1..(j - 1) : str[h] # sep
         IN  <<SubSeq(str, 1, k - 1)>> \o split(SubSeq(str, k + 1, Len(str)), sep)
starts_with(str, c) == str # <<>> /\ str[1] = c
RECURSIVE trim_start_matches(_, _)
trim_start_matches(str, c) ==
    IF starts_with(str, c) THEN trim_start_matches(Tail(str), c) ELSE str

Level == {"LogAlways", "Critical", "Error", "Warning", "Information", "Verbose"}

\* Level::value: the text "Level=<n>"
value(l) ==
    CASE l = "LogAlways"   -> <<"Level=", 0>>
      [] l = "Critical"    -> <<"Level=", 1>>
      [] l = "Error"       -> <<"Level=", 2>>
      [] l = "Warning"     -> <<"Level=", 3>>
      [] l = "Information" -> <<"Level=", 4>>
      [] l = "Verbose"     -> <<"Level=", 5>>

\* A clause is [kind, terms]: terms joined by " or " inside the clause text.
Clause(kind, terms) == [kind |-> kind, terms |-> terms]
Contains(seq, x) == \E k \in 1..Len(seq) : seq[k] = x

build_provider(providers) ==
    Clause("Provider", [k \in 1..Len(providers) |-> <<"@Name=", providers[k]>>])

\* the clause, or a panic when overflow checks are on and sec * 1000 overflows
build_ignore_old(sec, checks) ==
    IF checks /\ Overflows64(Times1000(sec))
    THEN [panic |-> TRUE, clause |-> Clause("TimeCreated", <<>>)]
    ELSE [panic |-> FALSE, clause |-> Clause("TimeCreated", <<WrappingMul1000(sec)>>)]

\* build_level without the Information -> LogAlways widening
build_level_without_widening(levels) ==
    Clause("Level", [k \in 1..Len(levels) |-> value(levels[k])])

build_level(levels) ==
    LET s == [k \in 1..Len(levels) |-> value(levels[k])]
    IN  Clause("Level", IF Contains(s, <<"Level=", 4>>) THEN Append(s, <<"Level=", 0>>) ELSE s)

\* the terms one entry pushes
event_id_terms(id) ==
    LET ids == split(id, "-")
        one == IF parse_u32(id) # None THEN <<<<"EventID=", parse_u32(id)[1]>>>> ELSE <<>>
        two == IF Len(ids) = 2 /\ parse_u32(ids[1]) # None /\ parse_u32(ids[2]) # None
                  /\ Less(parse_u32(ids[1])[1], parse_u32(ids[2])[1])
               THEN <<<<"EventID>=", parse_u32(ids[1])[1], "EventID<=", parse_u32(ids[2])[1]>>>>
               ELSE <<>>
    IN  one \o two

RECURSIVE event_id_terms_all(_)
event_id_terms_all(t) ==
    IF t = <<>> THEN <<>> ELSE event_id_terms(t[1]) \o event_id_terms_all(Tail(t))

build_event_id(t) == Clause("EventID", event_id_terms_all(t))

build_include_event_id(ids) ==
    build_event_id(SelectSeq(split(ids, ","), LAMBDA i : ~starts_with(i, "-")))

build_exclude_event_id(ids) ==
    LET ex == SelectSeq(split(ids, ","), LAMBDA i : starts_with(i, "-"))
    IN  build_event_id([k \in 1..Len(ex) |-> trim_start_matches(ex[k], "-")])

\* A statement is [tag, path, cond]; cond is None for "*" and Some(clauses)
\* for "*[System[c1 and c2 ...]]".
Statement(tag, path, cond) == [tag |-> tag, path |-> path, cond |-> cond]

\* filter_statements that always wraps the clauses in [System[...]]
filter_statements_always_conditioned(f, checks) ==
    LET age == IF f.ignore_older # None
               THEN build_ignore_old(f.ignore_older[1], checks)
               ELSE [panic |-> FALSE, clause |-> Clause("TimeCreated", <<>>)]
        fs == (IF f.provider # None THEN <<build_provider(f.provider[1])>> ELSE <<>>)
              \o (IF f.level # None THEN <<build_level(f.level[1])>> ELSE <<>>)
              \o (IF f.event_id # None THEN <<build_include_event_id(f.event_id[1])>> ELSE <<>>)
              \o (IF f.ignore_older # None THEN <<age.clause>> ELSE <<>>)
        select == Statement("Select", f.channel, Some(fs))
        suppress == IF f.event_id # None
                    THEN <<Statement("Suppress", f.channel,
                                     Some(<<build_exclude_event_id(f.event_id[1])>>))>>
                    ELSE <<>>
    IN  [panic |-> age.panic, stmts |-> <<select>> \o suppress]

\* filter_statements whose clause vector outlives the call: the Select starts
\* with the clauses the previous invocation left behind
filter_statements_retaining_clauses(f, checks) ==
    LET age == IF f.ignore_older # None
               THEN build_ignore_old(f.ignore_older[1], checks)
               ELSE [panic |-> FALSE, clause |-> Clause("TimeCreated", <<>>)]
        kept == IF query # None /\ ~query[1].panic /\ query[1].stmts # <<>>
                   /\ query[1].stmts[1].cond # None
                THEN query[1].stmts[1].cond[1] ELSE <<>>
        fs == kept
              \o (IF f.provider # None THEN <<build_provider(f.provider[1])>> ELSE <<>>)
              \o (IF f.level # None THEN <<build_level(f.level[1])>> ELSE <<>>)
              \o (IF f.event_id # None THEN <<build_include_event_id(f.event_id[1])>> ELSE <<>>)
              \o (IF f.ignore_older # None THEN <<age.clause>> ELSE <<>>)
        select == Statement("Select", f.channel, IF Len(fs) > 0 THEN Some(fs) ELSE None)
        suppress == IF f.event_id # None
                    THEN <<Statement("Suppress", f.channel,
                                     Some(<<build_exclude_event_id(f.event_id[1])>>))>>
                    ELSE <<>>
    IN  [panic |-> age.panic, stmts |-> <<select>> \o suppress]

\* filter_statements that pushes the level clause before the provider clause
filter_statements_level_first(f, checks) ==
    LET age == IF f.ignore_older # None
               THEN build_ignore_old(f.ignore_older[1], checks)
               ELSE [panic |-> FALSE, clause |-> Clause("TimeCreated", <<>>)]
        fs == (IF f.level # None THEN <<build_level(f.level[1])>> ELSE <<>>)
              \o (IF f.provider # None THEN <<build_provider(f.provider[1])>> ELSE <<>>)
              \o (IF f.event_id # None THEN <<build_include_event_id(f.event_id[1])>> ELSE <<>>)
              \o (IF f.ignore_older # None THEN <<age.clause>> ELSE <<>>)
        select == Statement("Select", f.channel, IF Len(fs) > 0 THEN Some(fs) ELSE None)
        suppress == IF f.event_id # None
                    THEN <<Statement("Suppress", f.channel,
                                     Some(<<build_exclude_event_id(f.event_id[1])>>))>>
                    ELSE <<>>
    IN  [panic |-> age.panic, stmts |-> <<select>> \o suppress]

\* the body of the for_each closure: the statements pushed for one Config
filter_statements(f, checks) ==
    LET age == IF f.ignore_older # None
               THEN build_ignore_old(f.ignore_older[1], checks)
               ELSE [panic |-> FALSE, clause |-> Clause("TimeCreated", <<>>)]
        fs == (IF f.provider # None THEN <<build_provider(f.provider[1])>> ELSE <<>>)
              \o (IF f.level # None THEN <<build_level(f.level[1])>> ELSE <<>>)
              \o (IF f.event_id # None THEN <<build_include_event_id(f.event_id[1])>> ELSE <<>>)
              \o (IF f.ignore_older # None THEN <<age.clause>> ELSE <<>>)
        select == Statement("Select", f.channel, IF Len(fs) > 0 THEN Some(fs) ELSE None)
        suppress == IF f.event_id # None
                    THEN <<Statement("Suppress", f.channel,
                                     Some(<<build_exclude_event_id(f.event_id[1])>>))>>
                    ELSE <<>>
    IN  [panic |-> age.panic, stmts |-> <<select>> \o suppress]

\* build_query with the clause vector declared outside the loop, so that a
\* Select also carries the clauses of the specs before it
RECURSIVE build_query_shared_filters(_, _)
build_query_shared_filters(fl, checks) ==
    IF fl = <<>> THEN [panic |-> FALSE, stmts |-> <<>>]
    ELSE LET front == build_query_shared_filters(SubSeq(fl, 1, Len(fl) - 1), checks)
             last  == filter_statements(fl[Len(fl)], checks)
             sels  == SelectSeq(front.stmts, LAMBDA x : x.tag = "Select")
             carried == IF sels # <<>> /\ sels[Len(sels)].cond # None
                        THEN sels[Len(sels)].cond[1] ELSE <<>>
             own   == IF last.stmts[1].cond # None THEN last.stmts[1].cond[1] ELSE <<>>
             sel   == [last.stmts[1] EXCEPT !.cond = IF carried \o own = <<>> THEN None
                                                     ELSE Some(carried \o own)]
         IN  IF front.panic \/ last.panic THEN [panic |-> TRUE, stmts |-> <<>>]
             ELSE [panic |-> FALSE, stmts |-> front.stmts \o <<sel>> \o Tail(last.stmts)]

\* the outcome of build_query: the statements inside <QueryList><Query>, or
\* a panic
RECURSIVE build_query(_, _)
build_query(fl, checks) ==
    IF fl = <<>> THEN [panic |-> FALSE, stmts |-> <<>>]
    ELSE LET head == filter_statements(fl[1], checks)
             rest == build_query(Tail(fl), checks)
         IN  IF head.panic \/ rest.panic THEN [panic |-> TRUE, stmts |-> <<>>]
             ELSE [panic |-> FALSE, stmts |-> head.stmts \o rest.stmts]

\* ---- the inputs build_query is applied to ----
Strings(chars, n) == UNION {[1..k -> chars] : k \in 0..n}
SelChars == {"0", "1", "2", "-", ",", "+", "x"}
ExampleSelector == <<"1",",","1","6","3","8","4",",","-","3","4","3","3",",","1","0","0","-","2","0","0",",","-","3","0","0","-","4","0","0">>
Selectors == Strings(SelChars, MaxSelLen) \cup {ExampleSelector}
LevelLists == Strings(Level, MaxLevels)
Ages == {<<0>>, <<1>>, <<4, 3, 2, 0, 0>>,
         <<1, 8, 4, 4, 6, 7, 4, 4, 0, 7, 3, 7, 0, 9, 5, 5, 1>>,
         <<1, 8, 4, 4, 6, 7, 4, 4, 0, 7, 3, 7, 0, 9, 5, 5, 2>>, U64Max}
ProviderLists == {<<>>, <<"P">>, <<"P", "Q">>}
Channels == {"Application", "Security"}

ChannelOnly(ch) == [channel |-> ch, level |-> None, event_id |-> None,
                    ignore_older |-> None, provider |-> None]
\* one field set
SingleFieldConfigs ==
    {ChannelOnly(ch) : ch \in Channels}
    \cup {[ChannelOnly("Application") EXCEPT !.level = Some(l)] : l \in LevelLists}
    \cup {[ChannelOnly("Application") EXCEPT !.event_id = Some(e)] : e \in Selectors}
    \cup {[ChannelOnly("Application") EXCEPT !.ignore_older = Some(a)] : a \in Ages}
    \cup {[ChannelOnly("Application") EXCEPT !.provider = Some(p)] : p \in ProviderLists}
\* several fields set
MixedConfigs ==
    [channel : Channels,
     level : {None, Some(<<"Information">>)},
     event_id : {None, Some(<<"1">>), Some(<<"1", ",", "-", "2">>)},
     ignore_older : {None, Some(<<1>>)},
     provider : {None, Some(<<"P">>)}]
FilterLists ==
    {<<f>> : f \in SingleFieldConfigs} \cup Strings(MixedConfigs, MaxFilters)

InitFilter ==
    /\ log = 0 /\ handles = <<>> /\ reader = NoReader /\ phase = "absent"
    /\ subCursor = 0 /\ bmPos = 0 /\ ncalls = 0 /\ ret = NoRet /\ calls = <<>>
    /\ returned = <<>> /\ retrieved = 0 /\ updates = 0
    /\ exported = None /\ exportedAfter = 0 /\ resumed = None
    /\ filters \in FilterLists
    /\ overflow_checks \in BOOLEAN
    /\ query = None
    /\ query_again = None

BuildQuery ==
    /\ query = None
    /\ query' = Some(build_query(filters, overflow_checks))
    /\ UNCHANGED <<readerVars, filters, overflow_checks, query_again>>

\* the same list compiled once more
BuildQueryAgain ==
    /\ query # None
    /\ query_again = None
    /\ query_again' = Some(build_query(filters, overflow_checks))
    /\ UNCHANGED <<readerVars, filters, overflow_checks, query>>

NextFilter == BuildQuery \/ BuildQueryAgain

SpecFilter == InitFilter /\ [][NextFilter]_vars

\* ---- properties ----
CallsOf(fn) == {k \in DOMAIN calls : calls[k].fn = fn}
LastCall == calls[Len(calls)]
\* no handle returned by a native call of the last operation is still open
NothingLeftOpen == \A k \in DOMAIN calls : calls[k].res # 0 => ~IsOpen(calls[k].res)

\* C1: once next() has advanced the bookmark of a live Reader, the record the
\* bookmark points to is one that next() returned as Ok.
C1_BookmarkNeverPastUnreturned ==
    (phase = "live" /\ updates > 0) => \E k \in DOMAIN returned : returned[k] = bmPos

\* C2: a Reader initialised with the bookmark text exported after N >= 1
\* returned events first returns the record right after the N-th, and never
\* returns the N-th or an earlier record again.
C2_BookmarkRoundTrip ==
    (phase = "live" /\ resumed # None /\ resumed[1] >= 1 /\ returned # <<>>) =>
        /\ returned[1] = resumed[1] + 1
        /\ \A k \in DOMAIN returned : returned[k] > resumed[1]

\* C3: next() polls exactly once; without an event it returns NoMoreLogs for
\* an absent code, 1460, 259 and 4317 and a Subscription error for any other
\* code; with an event it never returns NoMoreLogs.
C3_PollClassification ==
    ret.op = "next" =>
        /\ Cardinality(CallsOf("EvtNext")) = 1
        /\ ret.event = 0 =>
              IF ret.code = None \/ ret.code[1] \in {1460, 259, 4317}
              THEN ret.kind = "NoMoreLogs" ELSE ret.kind = "Subscription"
        /\ ret.event # 0 => ret.kind \in {"Ok", "Event"}
C3_Witness ==
    /\ ret.op = "next" /\ ret.event = 0
    /\ ret.code = Some(4317) /\ ret.kind = "NoMoreLogs"

\* C4: after every call no event handle is open.
C4_EventHandleClosed == OpenOfKind("event") = {}

\* C5: when EvtSubscribe fails, init returns a Subscription error and the
\* signal it created is closed.
C5_SignalReleasedOnSubscribeFailure ==
    (ret.op = "init" /\ calls # <<>> /\ LastCall.fn = "EvtSubscribe" /\ LastCall.res = 0) =>
        /\ ret.kind = "Subscription"
        /\ \A k \in CallsOf("CreateEventW") : ~IsOpen(calls[k].res)

\* C6: when creating the default bookmark fails, init returns a Subscription
\* error and neither the signal nor the subscription handle stays open.
C6_ReleasedOnDefaultBookmarkFailure ==
    (ret.op = "init" /\ Len(calls) >= 2 /\ LastCall.fn = "EvtCreateBookmark"
        /\ LastCall.res = 0 /\ calls[Len(calls) - 1].fn = "EvtSubscribe") =>
        /\ ret.kind = "Subscription"
        /\ NothingLeftOpen

\* C7: when CreateEventW fails, init returns a Subscription error and no
\* handle allocated by that init is open, whatever the configuration.
C7_NothingAllocatedOnSignalFailure ==
    (ret.op = "init" /\ calls # <<>> /\ LastCall.fn = "CreateEventW" /\ LastCall.res = 0) =>
        /\ ret.kind = "Subscription"
        /\ NothingLeftOpen

\* C8: teardown closes the signal, then the subscription handle, then the
\* bookmark handle, each only when live, and passes no null or never created
\* handle to a close call.
SignalLive == reader.signal # None /\ reader.signal[1] \notin {0, -1}
C8_TeardownOrder ==
    ret.op = "drop" =>
        LET want == <<[live |-> SignalLive, fn |-> "CloseHandle",
                       h |-> IF SignalLive THEN reader.signal[1] ELSE 0],
                      [live |-> reader.subscription_handle # 0, fn |-> "EvtClose",
                       h |-> reader.subscription_handle],
                      [live |-> reader.bookmark_handle # 0, fn |-> "EvtClose",
                       h |-> reader.bookmark_handle]>>
            Pos(n) == {k \in DOMAIN calls : calls[k].fn = want[n].fn /\ calls[k].arg = want[n].h}
        IN  /\ \A n \in 1..3 : Cardinality(Pos(n)) = IF want[n].live THEN 1 ELSE 0
            /\ \A m, n \in 1..3 : m < n => \A j \in Pos(m), k \in Pos(n) : j < k
            /\ \A k \in DOMAIN calls :
                  /\ calls[k].arg \in 1..Len(handles)
                  /\ \E n \in 1..3 : k \in Pos(n)
C8_Witness == ret.op = "drop" /\ Len(calls) = 3 /\ ~IsOpen(reader.bookmark_handle)

\* C9: the teardown steps run again on a torn-down Reader close nothing.
C9_TeardownIdempotent == phase = "dropped" => drop(reader) = <<>>

\* C10: EvtSubscribe gets start-after-bookmark iff a bookmark text was given
\* and materialised into a non-zero handle, else start-at-oldest when
\* read_oldest is set, else future-events; a failed materialisation alone
\* does not make init fail.
C10_StartFlag ==
    ret.op = "init" =>
        /\ CallsOf("EvtSubscribe") # {} =>
              ret.flag = IF ret.bookmark # None /\ ret.bmh # 0 THEN 3
                         ELSE IF ret.read_oldest THEN 2 ELSE 1
        /\ (ret.bookmark # None /\ ret.bmh = 0 /\ ret.kind # "Ok") =>
              \E k \in DOMAIN calls : k > 1 /\ calls[k].res = 0
C10_Witness ==
    /\ ret.op = "init" /\ ret.kind = "Ok"
    /\ ret.bookmark # None /\ ret.bmh = 0 /\ ret.read_oldest /\ ret.flag = 2

\* C11: init returns a Reader iff the signal, the subscription and a bookmark
\* handle (materialised or default) were all obtained; a live Reader holds a
\* valid signal and non-zero subscription and bookmark handles, all open.
Obtained(fn) == \E k \in CallsOf(fn) : calls[k].res # 0
C11_ReaderHoldsTriple ==
    /\ ret.op = "init" =>
          (ret.kind = "Ok" <=>
              Obtained("CreateEventW") /\ Obtained("EvtSubscribe") /\ Obtained("EvtCreateBookmark"))
    /\ (ret.op = "init" /\ ret.kind = "Ok") <=> (ret.op = "init" /\ phase = "live")
    /\ phase = "live" =>
          /\ reader.signal # None /\ reader.signal[1] \notin {0, -1}
          /\ IsOpen(reader.signal[1]) /\ handles[reader.signal[1]].kind = "signal"
          /\ reader.subscription_handle # 0 /\ IsOpen(reader.subscription_handle)
          /\ handles[reader.subscription_handle].kind = "subscription"
          /\ reader.bookmark_handle # 0 /\ IsOpen(reader.bookmark_handle)
          /\ handles[reader.bookmark_handle].kind = "bookmark"
C11_Witness ==
    /\ phase = "live" /\ ret.op = "next" /\ ret.kind = "Event"
    /\ IsOpen(reader.bookmark_handle) /\ returned # <<>>

\* C12 as stated: the successful bookmark updates of a live Reader are as
\* many as its polls that yielded an event.
C12_UpdatesEqualRetrieved == phase = "live" => updates = retrieved

\* C12 amended: every next() calls EvtUpdateBookmark exactly once when the
\* poll yielded an event and never otherwise; the position moves (once) iff
\* that call succeeded, and NoMoreLogs or a Subscription error leaves it.
UpdateCalls(cs) == {k \in DOMAIN cs : cs[k].fn = "EvtUpdateBookmark"}
C12_OneUpdateCallPerEvent ==
    [][(ret'.op = "next" /\ ncalls' = ncalls + 1) =>
        LET ok == \E k \in UpdateCalls(calls') : calls'[k].res = 1
        IN  /\ Cardinality(UpdateCalls(calls')) = IF ret'.event # 0 THEN 1 ELSE 0
            /\ retrieved' = retrieved + IF ret'.event # 0 THEN 1 ELSE 0
            /\ updates' = updates + IF ok THEN 1 ELSE 0
            /\ bmPos' = IF ok THEN ret'.event ELSE bmPos
            /\ ret'.kind \in {"NoMoreLogs", "Subscription"} => ~ok /\ ret'.event = 0]_vars
C12_Witness ==
    /\ ret.op = "next" /\ ret.event # 0 /\ updates < retrieved
    /\ \E k \in UpdateCalls(calls) : calls[k].res = 0

\* C13: in next() the bookmark update precedes every render and format call
\* of the event; when the update fails next() returns an Event error and
\* makes no render or format call.
RenderCalls == CallsOf("EvtRender") \cup CallsOf("EvtFormatMessage")
                  \cup CallsOf("EvtOpenPublisherMetadata")
C13_AdvanceBeforeRender ==
    ret.op = "next" =>
        /\ \A k \in RenderCalls : \E u \in UpdateCalls(calls) : u < k /\ calls[u].res = 1
        /\ (\E u \in UpdateCalls(calls) : calls[u].res = 0) =>
              /\ ret.kind = "Event"
              /\ RenderCalls = {}
              /\ \A k \in DOMAIN returned : returned[k] # ret.event
C13_Witness ==
    /\ ret.op = "next" /\ ret.kind = "Event" /\ RenderCalls = {}
    /\ \E u \in UpdateCalls(calls) : calls[u].res = 0

\* C14: a failed first render does not fail next(): the format call is still
\* made, without publisher metadata, and for Xml output the result is Ok
\* exactly when the second format call succeeded; an Event error is returned
\* only for a retrieved event.
FirstRenderFailed ==
    /\ CallsOf("EvtRender") # {}
    /\ \A k \in CallsOf("EvtRender") : calls[k].res = 0
FormatSucceeded == \E k \in CallsOf("EvtFormatMessage") : calls[k].res = 1
C14_FirstRenderNonFatal ==
    ret.op = "next" =>
        /\ FirstRenderFailed =>
              /\ CallsOf("EvtFormatMessage") # {}
              /\ CallsOf("EvtOpenPublisherMetadata") = {}
              /\ ret.kind = "Ok" => FormatSucceeded
              /\ (FormatSucceeded /\ reader.output = "Xml") => ret.kind = "Ok"
        /\ ret.kind = "Event" => ret.event # 0
C14_Witness ==
    /\ ret.op = "next" /\ FirstRenderFailed /\ ret.kind = "Ok"
    /\ reader.output = "Json"

\* ---- properties of build_query ----
Built == query # None /\ ~query[1].panic
Stmts == query[1].stmts
SelectPositions == {k \in 1..Len(Stmts) : Stmts[k].tag = "Select"}
NthSelect(i) == CHOOSE k \in SelectPositions : Cardinality({j \in SelectPositions : j <= k}) = i
\* the statements from the i-th Select up to the next Select
GroupOf(i) ==
    SubSeq(Stmts, NthSelect(i),
           IF i = Cardinality(SelectPositions) THEN Len(Stmts) ELSE NthSelect(i + 1) - 1)
OneSelectPerSpec == Cardinality(SelectPositions) = Len(filters)
ClausesOf(stmt, kind) ==
    IF stmt.cond = None THEN <<>> ELSE SelectSeq(stmt.cond[1], LAMBDA c : c.kind = kind)
SuppressOf(i) == SelectSeq(GroupOf(i), LAMBDA x : x.tag = "Suppress")
\* the selector has an entry that starts with '-'
HasExclusion(sel) == \E k \in 1..Len(sel) : sel[k] = "-" /\ (k = 1 \/ sel[k - 1] = ",")

\* C15: a spec gets a Suppress statement iff its event-id selector has at
\* least one entry starting with '-'.
C15_SuppressIffExclusion ==
    (Built /\ OneSelectPerSpec) =>
        \A i \in 1..Len(filters) :
            SuppressOf(i) # <<>> <=>
                (filters[i].event_id # None /\ HasExclusion(filters[i].event_id[1]))

\* C16: every comma-separated entry contributes at most one term, to the
\* Select clause when it does not start with '-' and to the Suppress clause
\* ('-' prefix stripped) when it does: an id term iff it parses, a range term
\* iff it has two '-'-separated parts that parse with start < end.
StripPrefix(e) == Tail(e)
Dashes(e) == {k \in 1..Len(e) : e[k] = "-"}
Contribution(e) ==
    IF parse_u32(e) # None THEN <<<<"EventID=", parse_u32(e)[1]>>>>
    ELSE IF Cardinality(Dashes(e)) = 1
    THEN LET d == CHOOSE k \in Dashes(e) : TRUE
             a == parse_u32(SubSeq(e, 1, d - 1))
             b == parse_u32(SubSeq(e, d + 1, Len(e)))
         IN  IF a # None /\ b # None /\ a # b /\ ~Less(b[1], a[1])
             THEN <<<<"EventID>=", a[1], "EventID<=", b[1]>>>> ELSE <<>>
    ELSE <<>>
RECURSIVE Contributions(_, _)
Contributions(entries, excluded) ==
    IF entries = <<>> THEN <<>>
    ELSE (IF starts_with(entries[1], "-") = excluded
          THEN Contribution(IF excluded THEN StripPrefix(entries[1]) ELSE entries[1])
          ELSE <<>>)
         \o Contributions(Tail(entries), excluded)
C16_EventIdTerms ==
    (Built /\ OneSelectPerSpec) =>
        \A i \in 1..Len(filters) : filters[i].event_id # None =>
            LET entries == split(filters[i].event_id[1], ",")
                inc == ClausesOf(Stmts[NthSelect(i)], "EventID")
                exc == ClausesOf(SuppressOf(i)[1], "EventID")
            IN  /\ Len(inc) = 1 /\ inc[1].terms = Contributions(entries, FALSE)
                /\ Len(SuppressOf(i)) = 1
                /\ Len(exc) = 1 /\ exc[1].terms = Contributions(entries, TRUE)
                /\ Len(inc[1].terms) + Len(exc[1].terms) <= Len(entries)
                /\ filters[i].event_id[1] = ExampleSelector =>
                      /\ inc[1].terms = << <<"EventID=", <<1>> >>, <<"EventID=", <<1, 6, 3, 8, 4>> >>,
                                           <<"EventID>=", <<1, 0, 0>>, "EventID<=", <<2, 0, 0>> >> >>
                      /\ exc[1].terms = << <<"EventID=", <<3, 4, 3, 3>> >>,
                                           <<"EventID>=", <<3, 0, 0>>, "EventID<=", <<4, 0, 0>> >> >>

\* C17: the level clause holds Level=0 iff Information or LogAlways is
\* selected, and holds the code of every selected level.
LevelCode == [l \in Level |->
                CASE l = "LogAlways" -> 0 [] l = "Critical" -> 1 [] l = "Error" -> 2
                  [] l = "Warning" -> 3 [] l = "Information" -> 4 [] l = "Verbose" -> 5]
C17_LevelWidening ==
    (Built /\ OneSelectPerSpec) =>
        \A i \in 1..Len(filters) : filters[i].level # None =>
            LET ls == filters[i].level[1]
                cl == ClausesOf(Stmts[NthSelect(i)], "Level")
            IN  /\ Len(cl) = 1
                /\ Contains(cl[1].terms, <<"Level=", 0>>) <=>
                      (Contains(ls, "Information") \/ Contains(ls, "LogAlways"))
                /\ \A k \in 1..Len(ls) : Contains(cl[1].terms, <<"Level=", LevelCode[ls[k]]>>)
C17_Witness ==
    /\ Built /\ Len(filters) = 1 /\ filters[1].level = Some(<<"Information">>)
    /\ Stmts[1].cond = Some(<<Clause("Level", << <<"Level=", 4>>, <<"Level=", 0>> >>)>>)

\* C18: one Select per spec, in spec order, on that spec's channel, and the
\* statements of a spec are those the spec compiles to on its own.
C18_SelectPerSpec ==
    Built =>
        /\ OneSelectPerSpec
        /\ \A i \in 1..Len(filters) :
              /\ Stmts[NthSelect(i)].path = filters[i].channel
              /\ \A k \in 1..Len(GroupOf(i)) : GroupOf(i)[k].path = filters[i].channel
              /\ GroupOf(i) = filter_statements(filters[i], overflow_checks).stmts
C18_Witness ==
    /\ Built /\ Len(filters) = 2 /\ Len(Stmts) = 2
    /\ filters[1].channel = "Application" /\ filters[2].channel = "Security"
    /\ Stmts[1].cond # None /\ Stmts[2].cond = None

\* C19: a spec with only a channel compiles to one unconditional Select on
\* that channel and nothing else.
C19_ChannelOnly ==
    (Built /\ OneSelectPerSpec) =>
        \A i \in 1..Len(filters) :
            (/\ filters[i].level = None /\ filters[i].event_id = None
             /\ filters[i].ignore_older = None /\ filters[i].provider = None) =>
                GroupOf(i) = <<[tag |-> "Select", path |-> filters[i].channel, cond |-> None]>>
C19_Witness ==
    /\ query # None /\ filters = <<ChannelOnly("Security")>>
    /\ Stmts = <<[tag |-> "Select", path |-> "Security", cond |-> None]>>

\* C20: build_query always returns a query, and the age clause of a spec with
\* max age a holds exactly a * 1000.
C20_AgeMillisExact ==
    query # None =>
        /\ ~query[1].panic
        /\ OneSelectPerSpec
        /\ \A i \in 1..Len(filters) : filters[i].ignore_older # None =>
              LET a == filters[i].ignore_older[1]
                  cl == ClausesOf(Stmts[NthSelect(i)], "TimeCreated")
              IN  Len(cl) = 1 /\ cl[1].terms = <<IF a = <<0>> THEN <<0>> ELSE a \o <<0, 0, 0>>>>

\* ---- the two-phase buffer protocol ----
FirstOf(fn) == CHOOSE k \in CallsOf(fn) : \A j \in CallsOf(fn) : k <= j
ProbeRejected(fn) ==
    calls[FirstOf(fn)].err # None /\ calls[FirstOf(fn)].err[1] # ERROR_INSUFFICIENT_BUFFER
\* both calls were made, in order, and the second succeeded
TextProduced(fn) ==
    /\ CallsOf(fn) = {FirstOf(fn), FirstOf(fn) + 1}
    /\ calls[FirstOf(fn) + 1].res = 1
Handshake(fn) ==
    CallsOf(fn) # {} =>
        /\ calls[FirstOf(fn)].size = 0
        /\ ProbeRejected(fn) => CallsOf(fn) = {FirstOf(fn)}
        /\ ~ProbeRejected(fn) =>
              /\ CallsOf(fn) = {FirstOf(fn), FirstOf(fn) + 1}
              /\ calls[FirstOf(fn) + 1].arg = calls[FirstOf(fn)].arg
              /\ calls[FirstOf(fn) + 1].size = calls[FirstOf(fn)].used
              /\ calls[FirstOf(fn) + 1].size > 0

\* C22: every render or format operation first calls with a zero-size
\* buffer; an error code other than 122 ends it with an Event error and no
\* second call; otherwise the second call gets a buffer of the reported size,
\* and text is returned only when that second call succeeded.
C22_TwoPhaseHandshake ==
    /\ Handshake("EvtRender")
    /\ Handshake("EvtFormatMessage")
    /\ ret.op = "get_bookmark" =>
          /\ CallsOf("EvtRender") # {}
          /\ ret.kind \in {"Ok", "Event"}
          /\ ret.kind = "Ok" <=> TextProduced("EvtRender")
    /\ (ret.op = "next" /\ CallsOf("EvtFormatMessage") # {} /\ ~TextProduced("EvtFormatMessage")) =>
          ret.kind = "Event"
    /\ (ret.op = "next" /\ ret.kind = "Ok") => TextProduced("EvtFormatMessage")
    /\ CallsOf("EvtOpenPublisherMetadata") # {} => TextProduced("EvtRender")
C22_Witness ==
    /\ ret.op = "next" /\ ret.kind = "Ok"
    /\ TextProduced("EvtRender") /\ TextProduced("EvtFormatMessage")
    /\ calls[FirstOf("EvtFormatMessage")].err = Some(ERROR_INSUFFICIENT_BUFFER)
    /\ calls[FirstOf("EvtFormatMessage") + 1].size = calls[FirstOf("EvtFormatMessage")].used

ClauseKinds(stmt) ==
    IF stmt.cond = None THEN <<>> ELSE [k \in 1..Len(stmt.cond[1]) |-> stmt.cond[1][k].kind]
\* C23: the clauses of a Select are those of the present fields in the order
\* provider, level, event-id inclusion, max age, under one condition; the
\* Suppress of the spec holds the exclusion clause alone.
C23_ClauseOrder ==
    (Built /\ OneSelectPerSpec) =>
        \A i \in 1..Len(filters) :
            LET f == filters[i]
                expected == (IF f.provider # None THEN <<"Provider">> ELSE <<>>)
                            \o (IF f.level # None THEN <<"Level">> ELSE <<>>)
                            \o (IF f.event_id # None THEN <<"EventID">> ELSE <<>>)
                            \o (IF f.ignore_older # None THEN <<"TimeCreated">> ELSE <<>>)
            IN  /\ ClauseKinds(Stmts[NthSelect(i)]) = expected
                /\ Stmts[NthSelect(i)].cond = None <=> expected = <<>>
                /\ \A k \in 1..Len(SuppressOf(i)) : ClauseKinds(SuppressOf(i)[k]) = <<"EventID">>
                /\ Len(SuppressOf(i)) <= 1
C23_Witness ==
    /\ Built /\ Len(filters) = 1 /\ Len(Stmts) = 2
    /\ ClauseKinds(Stmts[1]) = <<"Provider", "Level", "EventID", "TimeCreated">>
    /\ Stmts[2].tag = "Suppress" /\ ClauseKinds(Stmts[2]) = <<"EventID">>

\* C24: no statement of the query holds a clause without terms.
C24_NoEmptyClause ==
    Built =>
        \A k \in 1..Len(Stmts) :
            Stmts[k].cond # None =>
                \A c \in 1..Len(Stmts[k].cond[1]) : Stmts[k].cond[1][c].terms # <<>>

\* C25: after next() the only open handles are the Reader's signal,
\* subscription handle and bookmark handle.
C25_NextLeavesOnlyReaderHandles ==
    ret.op = "next" =>
        \A h \in 1..Len(handles) :
            IsOpen(h) => \/ Some(h) = reader.signal
                         \/ h = reader.subscription_handle
                         \/ h = reader.bookmark_handle
====
